---- MODULE Spec2Model ----
(***************************************************************************)
(* code4swipe: a polling monitor that fetches `git diff`, asks a change    *)
(* detector whether new work appeared, and triggers an ADB swipe when it   *)
(* did.  The model covers the detectors (both line-count variants and the  *)
(* exact one), the diff source, the swipe provider, the factories and the  *)
(* driver loop of main().                                                  *)
(***************************************************************************)
EXTENDS Integers, Sequences, FiniteSets, TLC

\* ------------------------------------------------------------------ bounds

\* Longest diff text, in characters.
MaxLen == 3

\* Number of check_for_new_work calls explored in one run.
MaxTicks == 3

\* ------------------------------------------------------------------- texts

NL == "\n"

\* The characters a diff text is made of: a content character and the line
\* break.
Chars == {"+", NL}

\* Every diff text of at most MaxLen characters, as a sequence of characters.
Texts == UNION {[1..n -> Chars] : n \in 0..MaxLen}

EmptyText == <<>>

\* Index of the first line break of s, 0 when there is none.
FirstBreak(s) ==
    IF \E i \in 1..Len(s) : s[i] = NL
    THEN CHOOSE i \in 1..Len(s) : s[i] = NL /\ \A j \in 1..(i - 1) : s[j] # NL
    ELSE 0

\* str.splitlines(): the lines of s without their line breaks; a trailing
\* line break opens no further line, and the empty text has no lines.
RECURSIVE splitlines(_)
splitlines(s) ==
    IF s = <<>> THEN <<>>
    ELSE LET i == FirstBreak(s)
         IN  IF i = 0 THEN <<s>>
             ELSE <<SubSeq(s, 1, i - 1)>> \o splitlines(SubSeq(s, i + 1, Len(s)))

\* ------------------------------------------------------------------- names

UpperCase == <<"A", "B", "C", "D", "E", "G", "I", "L", "N", "O", "S", "T", "U", "X">>
LowerCase == <<"a", "b", "c", "d", "e", "g", "i", "l", "n", "o", "s", "t", "u", "x">>

\* str.lower() on one character.
LowerChar(c) ==
    IF \E i \in 1..Len(UpperCase) : UpperCase[i] = c
    THEN LowerCase[CHOOSE i \in 1..Len(UpperCase) : UpperCase[i] = c]
    ELSE c

\* str.lower()
lower(s) == [i \in 1..Len(s) |-> LowerChar(s[i])]

\* StrEnum SwipeProviders: the values of its members.
SwipeProviders == {<<"a", "d", "b">>}

EXACT == <<"e", "x", "a", "c", "t">>
LINECOUNT == <<"l", "i", "n", "e", "c", "o", "u", "n", "t">>

\* StrEnum ChangeDetectors: the values of its members.
ChangeDetectors == {LINECOUNT, EXACT}

\* The names main() is started with.
ProviderNames == {<<"a", "d", "b">>, <<"A", "D", "B">>, <<"b", "o", "g", "u", "s">>}
DetectorNames ==
    {EXACT, <<"E", "x", "a", "c", "t">>, LINECOUNT,
     <<"L", "I", "N", "E", "C", "O", "U", "N", "T">>, <<"b", "o", "g", "u", "s">>}

\* The two layouts of the program: the single file code4swipe.py and the
\* package (factories.py with base/, change_detectors/, diff_providers/,
\* swipe_providers/).
Layouts == {"single_file", "package"}

\* ------------------------------------------------------------- diff source

\* What the `git -C <repo> diff` call can do.
GitOutcomes ==
    {"ok", "file_not_found", "not_a_repository", "called_process_error",
     "exception", "keyboard_interrupt"}

\* Mutant: no `except Exception` clause, an unexpected exception gets out.
GetCurrentGitDiffNoCatchAll(tree, outcome) ==
    CASE outcome = "ok" -> [kind |-> "return", text |-> tree, status |-> 0]
      [] outcome = "file_not_found" -> [kind |-> "exit", text |-> EmptyText, status |-> 1]
      [] outcome \in {"not_a_repository", "called_process_error"} ->
            [kind |-> "return", text |-> EmptyText, status |-> 0]
      [] OTHER -> [kind |-> "raise", text |-> EmptyText, status |-> 0]

\* Mutant: a missing git executable degrades to the empty text like any other
\* failure.
GetCurrentGitDiffMissingGitDegrades(tree, outcome) ==
    CASE outcome = "ok" -> [kind |-> "return", text |-> tree, status |-> 0]
      [] outcome = "keyboard_interrupt" ->
            [kind |-> "raise", text |-> EmptyText, status |-> 0]
      [] OTHER -> [kind |-> "return", text |-> EmptyText, status |-> 0]

\* Mutant: a bare `except:` clause, which also swallows KeyboardInterrupt.
GetCurrentGitDiffBareExcept(tree, outcome) ==
    CASE outcome = "ok" -> [kind |-> "return", text |-> tree, status |-> 0]
      [] outcome = "file_not_found" -> [kind |-> "exit", text |-> EmptyText, status |-> 1]
      [] OTHER -> [kind |-> "return", text |-> EmptyText, status |-> 0]

\* Mutant: a failed call hands back the tree's diff all the same.
GetCurrentGitDiffFailureKeepsText(tree, outcome) ==
    CASE outcome = "file_not_found" -> [kind |-> "exit", text |-> EmptyText, status |-> 1]
      [] outcome = "keyboard_interrupt" ->
            [kind |-> "raise", text |-> EmptyText, status |-> 0]
      [] OTHER -> [kind |-> "return", text |-> tree, status |-> 0]

\* get_current_git_diff: the outcome of the call on the working tree's diff
\* `tree`.  kind "return" carries the returned text, kind "exit" is
\* sys.exit(status), kind "raise" lets the exception through.
get_current_git_diff(tree, outcome) ==
    CASE outcome = "ok" -> [kind |-> "return", text |-> tree, status |-> 0]
      [] outcome = "file_not_found" -> [kind |-> "exit", text |-> EmptyText, status |-> 1]
      [] outcome = "not_a_repository" -> [kind |-> "return", text |-> EmptyText, status |-> 0]
      [] outcome = "called_process_error" -> [kind |-> "return", text |-> EmptyText, status |-> 0]
      [] outcome = "exception" -> [kind |-> "return", text |-> EmptyText, status |-> 0]
      [] OTHER -> [kind |-> "raise", text |-> EmptyText, status |-> 0]

\* --------------------------------------------------------------- detectors

DetectorClasses == {"Exact", "LineCount"}

\* get_current_state on an already fetched diff text: the text itself for
\* Exact, the number of its lines for LineCount.
get_current_state(cls, diff_string) ==
    IF cls = "Exact" THEN diff_string ELSE Len(splitlines(diff_string))

\* Mutant: the comparison looks at the empty text instead of the baseline.
ExactHasNewWorkNonEmpty(current_diff, last_state) == current_diff # EmptyText

\* Mutant: only a longer text counts.
ExactHasNewWorkGrowthOnly(current_diff, last_state) ==
    Len(current_diff) > Len(last_state)

\* The comparison of GitDiffChangesDetectorExact.check_for_new_work.
ExactHasNewWork(current_diff, last_state) == current_diff # last_state

\* The comparison of the package's
\* GitDiffChangesDetectorLineCount.check_for_new_work.
PackageLineCountHasNewWork(current_count, last_state) == current_count # last_state

\* The comparison of code4swipe.py's
\* GitDiffChangesDetectorLineCount.check_for_new_work.
SingleFileLineCountHasNewWork(current_count, last_state) == current_count > last_state

\* has_new_work of check_for_new_work for the detector class of a layout.
HasNewWork(lay, cls, current, last_state) ==
    CASE cls = "Exact" -> ExactHasNewWork(current, last_state)
      [] cls = "LineCount" /\ lay = "package" -> PackageLineCountHasNewWork(current, last_state)
      [] OTHER -> SingleFileLineCountHasNewWork(current, last_state)

\* Mutant: the baseline is never replaced.
NewLastStateKept(current, last_state) == last_state

\* The baseline check_for_new_work stores: always the current state.
NewLastState(current, last_state) == current

\* Mutant: the constructor stores an empty baseline without looking at the
\* diff.
InitialLastStateSentinel(cls, diff_string) ==
    IF cls = "Exact" THEN EmptyText ELSE 0

\* The baseline the constructor stores: the state of the diff it fetched.
InitialLastState(cls, diff_string) == get_current_state(cls, diff_string)

\* ---------------------------------------------------------- swipe provider

\* What an `adb` call can do.
AdbOutcomes == {"ok", "file_not_found", "called_process_error", "exception"}

\* SwipeProviderADB.check_availability: true only when `adb version` ran
\* and exited with status 0.
check_availability(outcome) == outcome = "ok"

\* Mutant: no handler for exceptions other than the two named ones.
SwipeUpNoCatchAll(outcome) ==
    CASE outcome \in {"ok", "file_not_found", "called_process_error"} ->
            [kind |-> "return", exc |-> "none"]
      [] outcome = "exception" -> [kind |-> "raise", exc |-> "Exception"]
      [] OTHER -> [kind |-> "raise", exc |-> "KeyboardInterrupt"]

\* SwipeProviderADB.swipe_up: "return" when the call comes back to the
\* caller (the command ran, or its failure was caught and logged), "raise"
\* when an exception leaves it.  KeyboardInterrupt is no Exception and is
\* not caught.
swipe_up(outcome) ==
    IF outcome \in AdbOutcomes
    THEN [kind |-> "return", exc |-> "none"]
    ELSE [kind |-> "raise", exc |-> "KeyboardInterrupt"]

\* --------------------------------------------------------------- factories

\* Mutant: the result of the availability check is ignored.
GetSwipeProviderUnchecked(name, outcome) ==
    IF name \notin SwipeProviders
    THEN [kind |-> "raise", exc |-> "ValueError", probed |-> FALSE]
    ELSE [kind |-> "return", exc |-> "none", probed |-> TRUE]

\* get_swipe_provider: the enum lookup raises ValueError for a name that is
\* no member value; a failed availability check raises click.Abort.
get_swipe_provider(name, outcome) ==
    IF name \notin SwipeProviders
    THEN [kind |-> "raise", exc |-> "ValueError", probed |-> FALSE]
    ELSE IF ~check_availability(outcome)
         THEN [kind |-> "raise", exc |-> "Abort", probed |-> TRUE]
         ELSE [kind |-> "return", exc |-> "none", probed |-> TRUE]

\* Mutant: the name is looked up as typed, without lower().
GetChangesDetectorCaseSensitive(name) ==
    IF name \notin ChangeDetectors
    THEN [kind |-> "raise", exc |-> "ValueError", cls |-> "none"]
    ELSE [kind |-> "return", exc |-> "none",
          cls |-> IF name = EXACT THEN "Exact" ELSE "LineCount"]

\* Mutant: an unknown name falls back to the default strategy.
GetChangesDetectorDefault(name) ==
    [kind |-> "return", exc |-> "none",
     cls |-> IF lower(name) = LINECOUNT THEN "LineCount" ELSE "Exact"]

\* get_changes_detector up to the constructor call: the class the name maps
\* to; the enum lookup of the lower-cased name raises ValueError for a name
\* that is no member value.
get_changes_detector(name) ==
    IF lower(name) \notin ChangeDetectors
    THEN [kind |-> "raise", exc |-> "ValueError", cls |-> "none"]
    ELSE [kind |-> "return", exc |-> "none",
          cls |-> IF lower(name) = EXACT THEN "Exact" ELSE "LineCount"]

\* ImplFactoryBase.get_impl_instance for a factory whose enum has the values
\* impl_names and whose get_impl_map has the keys impl_map: the enum lookup
\* of the lower-cased name comes first and raises ValueError for a name that
\* is no member value; click.Abort is left for a member without a factory.
get_impl_instance(impl_name_str, impl_names, impl_map) ==
    IF lower(impl_name_str) \notin impl_names
    THEN [kind |-> "raise", exc |-> "ValueError"]
    ELSE IF lower(impl_name_str) \notin impl_map
         THEN [kind |-> "raise", exc |-> "Abort"]
         ELSE [kind |-> "return", exc |-> "none"]

\* Mutant: the failure is reported but the process ends like a clean run.
InitFailureStatusZero(exc) == 0

\* The exit status main() ends with when `exc` leaves one of the factories:
\* click.Abort is caught ("Failed to initialize", sys.exit(1)); any other
\* exception is uncaught and ends the interpreter with status 1.
InitFailureStatus(exc) == 1

\* Mutant: the swipe is made whatever the check returned.
AfterCheckAlwaysSwipe(new_work) == "swipe"

\* Mutant: an iteration without new work skips the sleep (`continue`).
AfterCheckNoSleep(new_work) == IF new_work THEN "swipe" ELSE "check"

\* main()'s `if detector.check_for_new_work():` : where the loop body goes
\* after the check returned new_work.
AfterCheck(new_work) == IF new_work THEN "swipe" ELSE "sleep"

\* Mutant: the loop has no handler of its own, every exception ends the
\* process with status 1.
LoopFailureStatusUnhandled(exc) == 1

\* The exit status main() ends with when `exc` leaves the loop body:
\* KeyboardInterrupt is caught (sys.exit(0)); any other exception is
\* uncaught and ends the interpreter with status 1.
LoopFailureStatus(exc) == IF exc = "KeyboardInterrupt" THEN 0 ELSE 1

\* ------------------------------------------------------------------- state

VARIABLES
    layout,          \* which program runs: code4swipe.py or the package
    provider_name,   \* main()'s provider_name
    detector_name,   \* main()'s detector_name
    pc,              \* where main() is
    exit_status,     \* the process's exit status, -1 while it runs
    exit_cause,      \* what ended the process
    provider,        \* the provider instance main() holds, "none" before
    available,       \* what check_availability returned, "unchecked" before
    detector_class,  \* the class of the detector instance, "none" before
    _last_state,     \* the detector's baseline
    tree,            \* the working tree's current diff text
    diff_string,     \* the text the last get_current_git_diff call returned
    has_new_work,    \* what the last check_for_new_work call returned
    probes,          \* check_availability calls made
    fetches,         \* get_current_git_diff calls made
    checks,          \* check_for_new_work calls made
    true_checks,     \* check_for_new_work calls that returned True
    swipes,          \* swipe_up calls made
    iter_checks,     \* check_for_new_work calls of the current iteration
    iter_swipes,     \* swipe_up calls of the current iteration
    swipe_outcome,   \* what the adb call of this iteration's swipe_up did
    git_outcome,     \* what the git call of this iteration's fetch did
    last_swipe_failed, \* whether the most recent swipe_up call failed
    sleeps,          \* time.sleep calls that ran to their end
    fetched,         \* a lone detector's fetched texts, oldest first
    results,         \* a lone detector's check results, oldest first
    side,            \* the detectors run side by side, by kind
    change           \* the watched edit of the working tree, once made

vars ==
    <<layout, provider_name, detector_name, pc, exit_status, exit_cause,
      provider, available, detector_class, _last_state, tree, diff_string, has_new_work,
      probes, fetches, checks, true_checks, swipes, iter_checks, iter_swipes,
      swipe_outcome, git_outcome, last_swipe_failed, sleeps, fetched, results,
      side, change>>

params == <<layout, provider_name, detector_name>>
counters == <<probes, fetches, checks, true_checks, swipes, sleeps>>
iteration == <<iter_checks, iter_swipes, swipe_outcome, git_outcome, last_swipe_failed>>
detector == <<detector_class, _last_state, diff_string, has_new_work>>
lone == <<fetched, results, side, change>>

\* No watched edit of the working tree was made yet.
NoChange == [made |-> FALSE, checks |-> 0, swipes |-> 0]

\* The driver's state of the specification's state machine.
DriverState ==
    CASE pc \in {"resolve_provider", "resolve_detector", "announce"} -> "Initializing"
      [] pc \in {"check", "swipe", "sleep"} -> "Running"
      [] OTHER -> "Terminated"

Init ==
    /\ layout \in Layouts
    /\ provider_name \in ProviderNames
    /\ detector_name \in DetectorNames
    /\ pc = "resolve_provider"
    /\ exit_status = -1
    /\ exit_cause = "none"
    /\ provider = "none"
    /\ available = "unchecked"
    /\ detector_class = "none"
    /\ _last_state = "None"
    /\ tree \in Texts
    /\ diff_string = EmptyText
    /\ has_new_work = FALSE
    /\ probes = 0
    /\ fetches = 0
    /\ checks = 0
    /\ true_checks = 0
    /\ swipes = 0
    /\ iter_checks = 0
    /\ iter_swipes = 0
    /\ swipe_outcome = "none"
    /\ git_outcome = "none"
    /\ last_swipe_failed = FALSE
    /\ sleeps = 0
    /\ fetched = <<>>
    /\ results = <<>>
    /\ side = <<>>
    /\ change = NoChange

\* sys.exit(status), or the interpreter ending on an uncaught exception.
Terminate(status, cause) ==
    /\ pc' = "terminated"
    /\ exit_status' = status
    /\ exit_cause' = cause

\* main(): provider = get_swipe_provider(...), with the handling of what it
\* raises.
GetSwipeProvider ==
    /\ pc = "resolve_provider"
    /\ \E outcome \in AdbOutcomes :
          LET r == get_swipe_provider(provider_name, outcome)
          IN  /\ probes' = probes + (IF r.probed THEN 1 ELSE 0)
              /\ available' = IF ~r.probed THEN available
                               ELSE IF check_availability(outcome) THEN "yes" ELSE "no"
              /\ IF r.kind = "return"
                 THEN /\ provider' = "ADB"
                      /\ pc' = "resolve_detector"
                      /\ UNCHANGED <<exit_status, exit_cause>>
                 ELSE /\ Terminate(InitFailureStatus(r.exc), r.exc)
                      /\ UNCHANGED provider
    /\ UNCHANGED <<params, detector, tree, fetches, checks, true_checks, swipes,
                   sleeps, iteration, lone>>

\* main(): detector = get_changes_detector(...): the class lookup, then the
\* constructor, which fetches the diff once and stores its state as the
\* baseline.  A missing git executable ends the process inside the fetch.
GetChangesDetector ==
    /\ pc = "resolve_detector"
    /\ LET r == get_changes_detector(detector_name)
       IN  IF r.kind = "raise"
           THEN /\ Terminate(InitFailureStatus(r.exc), r.exc)
                /\ UNCHANGED <<detector, fetches, git_outcome>>
           ELSE \E outcome \in GitOutcomes \ {"keyboard_interrupt"} :
                   LET d == get_current_git_diff(tree, outcome)
                   IN  /\ fetches' = fetches + 1
                       /\ git_outcome' = outcome
                       /\ IF d.kind = "exit"
                          THEN /\ Terminate(d.status, "git_not_found")
                               /\ UNCHANGED detector
                          ELSE /\ detector_class' = r.cls
                               /\ diff_string' = d.text
                               /\ _last_state' = InitialLastState(r.cls, d.text)
                               /\ pc' = "announce"
                               /\ UNCHANGED <<has_new_work, exit_status, exit_cause>>
    /\ UNCHANGED <<params, provider, available, tree, probes, checks, true_checks,
                   swipes, sleeps, iter_checks, iter_swipes, swipe_outcome,
                   last_swipe_failed, lone>>

\* main() between the two try blocks: the banner, with the detector's
\* initial_status_message, which only reads the baseline.
Announce ==
    /\ pc = "announce"
    /\ pc' = "check"
    /\ UNCHANGED <<params, exit_status, exit_cause, provider, available, detector,
                   tree, counters, iteration, lone>>

\* One call of detector.check_for_new_work() at the top of the loop, with
\* main()'s `if`: fetch, compare with the baseline, replace the baseline,
\* return.  A missing git executable ends the process with status 1; a
\* KeyboardInterrupt during the call reaches main()'s handler.
CheckForNewWork ==
    /\ pc = "check"
    /\ checks < MaxTicks
    /\ \E outcome \in GitOutcomes :
          LET d == get_current_git_diff(tree, outcome)
              current == get_current_state(detector_class, d.text)
              new_work == HasNewWork(layout, detector_class, current, _last_state)
          IN  /\ fetches' = fetches + 1
              /\ checks' = checks + 1
              /\ iter_checks' = iter_checks + 1
              /\ git_outcome' = outcome
              /\ CASE d.kind = "exit" ->
                        /\ Terminate(d.status, "git_not_found")
                        /\ UNCHANGED <<detector, true_checks>>
                   [] d.kind = "raise" ->
                        /\ Terminate(LoopFailureStatus("KeyboardInterrupt"), "KeyboardInterrupt")
                        /\ UNCHANGED <<detector, true_checks>>
                   [] OTHER ->
                        /\ diff_string' = d.text
                        /\ has_new_work' = new_work
                        /\ _last_state' = NewLastState(current, _last_state)
                        /\ true_checks' = true_checks + (IF new_work THEN 1 ELSE 0)
                        /\ pc' = AfterCheck(new_work)
                        /\ UNCHANGED <<detector_class, exit_status, exit_cause>>
    /\ UNCHANGED <<params, provider, available, tree, probes, swipes, sleeps,
                   iter_swipes, swipe_outcome, last_swipe_failed, lone>>

\* provider.swipe_up() after a check that returned True.
SwipeUp ==
    /\ pc = "swipe"
    /\ \E outcome \in AdbOutcomes \cup {"keyboard_interrupt"} :
          /\ swipes' = swipes + 1
          /\ iter_swipes' = iter_swipes + 1
          /\ swipe_outcome' = outcome
          /\ last_swipe_failed' = (outcome \in AdbOutcomes \ {"ok"})
          /\ IF swipe_up(outcome).kind = "return"
             THEN /\ pc' = "sleep"
                  /\ UNCHANGED <<exit_status, exit_cause>>
             ELSE Terminate(LoopFailureStatus(swipe_up(outcome).exc), swipe_up(outcome).exc)
    /\ UNCHANGED <<params, provider, available, detector, tree, probes, fetches,
                   checks, true_checks, sleeps, iter_checks, git_outcome, lone>>

\* Mutant: the detector is built again after every sleep, which fetches a
\* new baseline.
SleepRebuildingDetector ==
    /\ pc = "sleep"
    /\ pc' = "check"
    /\ iter_checks' = 0
    /\ iter_swipes' = 0
    /\ swipe_outcome' = "none"
    /\ git_outcome' = "none"
    /\ sleeps' = sleeps + 1
    /\ _last_state' = InitialLastState(detector_class, tree)
    /\ UNCHANGED <<params, exit_status, exit_cause, provider, available,
                   detector_class, diff_string, has_new_work,
                   tree, probes, fetches, checks, true_checks, swipes,
                   last_swipe_failed, lone>>

\* time.sleep(poll_interval) runs to its end; the loop starts over.
Sleep ==
    /\ pc = "sleep"
    /\ pc' = "check"
    /\ iter_checks' = 0
    /\ iter_swipes' = 0
    /\ swipe_outcome' = "none"
    /\ git_outcome' = "none"
    /\ sleeps' = sleeps + 1
    /\ UNCHANGED <<params, exit_status, exit_cause, provider, available, detector,
                   tree, probes, fetches, checks, true_checks, swipes,
                   last_swipe_failed, lone>>

\* CTRL+C while main() is in its loop but in none of the external calls:
\* during the sleep, or between two statements of the loop body.
KeyboardInterrupt ==
    /\ pc \in {"check", "swipe", "sleep"}
    /\ Terminate(LoopFailureStatus("KeyboardInterrupt"), "KeyboardInterrupt")
    /\ UNCHANGED <<params, provider, available, detector, tree, counters, iteration,
                   lone>>

\* CTRL+C before main() is in its loop: neither `except click.Abort` nor the
\* banner catches KeyboardInterrupt, so it leaves main() and the process ends
\* with a non-zero status (1 from click's command wrapper, 130 from the
\* interpreter).
InterruptInitializing ==
    /\ pc \in {"resolve_provider", "resolve_detector", "announce"}
    /\ \E status \in {1, 130} : Terminate(status, "KeyboardInterrupt")
    /\ UNCHANGED <<params, provider, available, detector, tree, counters, iteration,
                   lone>>

\* The user edits the working tree: its diff becomes another text.
EditTree ==
    /\ pc # "terminated"
    /\ tree' \in Texts \ {tree}
    /\ UNCHANGED <<params, pc, exit_status, exit_cause, provider, available,
                   detector, counters, iteration, lone>>

Next ==
    \/ GetSwipeProvider
    \/ GetChangesDetector
    \/ Announce
    \/ CheckForNewWork
    \/ SwipeUp
    \/ Sleep
    \/ KeyboardInterrupt
    \/ InterruptInitializing
    \/ EditTree

Spec == Init /\ [][Next]_vars

\* ------------------------------------------------------------ lone detector

\* The last n elements of seq.
LastN(seq, n) == IF Len(seq) <= n THEN seq ELSE SubSeq(seq, Len(seq) - n + 1, Len(seq))

\* A GitDiffChangesDetectorExact used on its own, outside main(): `fetched`
\* keeps the texts of its last three fetches and `results` its last two
\* check results.
DetectorInit ==
    /\ layout \in Layouts
    /\ provider_name = <<"a", "d", "b">>
    /\ detector_name = EXACT
    /\ pc = "lone"
    /\ exit_status = -1
    /\ exit_cause = "none"
    /\ provider = "none"
    /\ available = "unchecked"
    /\ detector_class = "none"
    /\ _last_state = "None"
    /\ tree = EmptyText
    /\ diff_string = EmptyText
    /\ has_new_work = FALSE
    /\ probes = 0
    /\ fetches = 0
    /\ checks = 0
    /\ true_checks = 0
    /\ swipes = 0
    /\ iter_checks = 0
    /\ iter_swipes = 0
    /\ swipe_outcome = "none"
    /\ git_outcome = "none"
    /\ last_swipe_failed = FALSE
    /\ sleeps = 0
    /\ fetched = <<>>
    /\ results = <<>>
    /\ side = <<>>
    /\ change = NoChange

\* The git calls of the lone detector succeed or report that the path is no
\* repository.
LoneGitOutcomes == {"ok", "not_a_repository"}

\* GitDiffChangesDetectorExact(repo_path): the constructor's fetch and store,
\* with `text` the working tree's diff at the time of the call.
NewDetector ==
    /\ pc = "lone"
    /\ detector_class = "none"
    /\ \E text \in Texts, outcome \in LoneGitOutcomes :
          LET d == get_current_git_diff(text, outcome)
          IN  /\ d.kind = "return"
              /\ detector_class' = "Exact"
              /\ diff_string' = d.text
              /\ _last_state' = InitialLastState("Exact", d.text)
              /\ fetched' = <<d.text>>
    /\ fetches' = fetches + 1
    /\ UNCHANGED <<params, pc, exit_status, exit_cause, provider, available, tree,
                   has_new_work, probes, checks, true_checks, swipes, sleeps,
                   iteration, results, side, change>>

\* One check_for_new_work call on the lone detector, with `text` the working
\* tree's diff at the time of the call.
LoneCheck ==
    /\ pc = "lone"
    /\ detector_class = "Exact"
    /\ checks < MaxTicks
    /\ \E text \in Texts, outcome \in LoneGitOutcomes :
          LET d == get_current_git_diff(text, outcome)
              current == get_current_state(detector_class, d.text)
              new_work == HasNewWork(layout, detector_class, current, _last_state)
          IN  /\ d.kind = "return"
              /\ diff_string' = d.text
              /\ has_new_work' = new_work
              /\ _last_state' = NewLastState(current, _last_state)
              /\ fetched' = LastN(Append(fetched, d.text), 3)
              /\ results' = LastN(Append(results, new_work), 2)
    /\ fetches' = fetches + 1
    /\ checks' = checks + 1
    /\ UNCHANGED <<params, pc, exit_status, exit_cause, provider, available,
                   detector_class, tree, probes, true_checks, swipes, sleeps,
                   iteration, side, change>>

DetectorNext ==
    \/ NewDetector
    \/ LoneCheck

DetectorSpec == DetectorInit /\ [][DetectorNext]_vars

\* ----------------------------------------------- detector names, any case

\* str.upper() on one character.
UpperChar(c) ==
    IF \E i \in 1..Len(LowerCase) : LowerCase[i] = c
    THEN UpperCase[CHOOSE i \in 1..Len(LowerCase) : LowerCase[i] = c]
    ELSE c

\* Every upper/lower-case spelling of a name.
Spellings(name) ==
    {[i \in 1..Len(name) |-> IF i \in upper THEN UpperChar(name[i]) ELSE name[i]] :
        upper \in SUBSET (1..Len(name))}

ExactSpellings == Spellings(EXACT)
LineCountSpellings == Spellings(LINECOUNT)
SpellingsOf(member) == IF member = EXACT THEN ExactSpellings ELSE LineCountSpellings

\* The detector names of the resolution runs: every spelling of every member
\* of ChangeDetectors, and a name that is no member.
ResolveNames ==
    ExactSpellings \cup LineCountSpellings \cup {<<"b", "o", "g", "u", "s">>}

\* main() started with the provider "adb" and any of these detector names.
ResolveInit ==
    /\ layout \in Layouts
    /\ provider_name = <<"a", "d", "b">>
    /\ detector_name \in ResolveNames
    /\ pc = "resolve_provider"
    /\ exit_status = -1
    /\ exit_cause = "none"
    /\ provider = "none"
    /\ available = "unchecked"
    /\ detector_class = "none"
    /\ _last_state = "None"
    /\ tree \in Texts
    /\ diff_string = EmptyText
    /\ has_new_work = FALSE
    /\ probes = 0
    /\ fetches = 0
    /\ checks = 0
    /\ true_checks = 0
    /\ swipes = 0
    /\ iter_checks = 0
    /\ iter_swipes = 0
    /\ swipe_outcome = "none"
    /\ git_outcome = "none"
    /\ last_swipe_failed = FALSE
    /\ sleeps = 0
    /\ fetched = <<>>
    /\ results = <<>>
    /\ side = <<>>
    /\ change = NoChange

\* main() up to its loop.
ResolveNext ==
    \/ GetSwipeProvider
    \/ GetChangesDetector
    \/ Announce

ResolveSpec == ResolveInit /\ [][ResolveNext]_vars

\* ------------------------------------------------------------------ claims

\* A step in which a check_for_new_work call of main()'s loop returned.
CheckReturned == checks' = checks + 1 /\ pc' \in {"swipe", "sleep"}

\* C1: for both strategies, after every check_for_new_work call the stored
\* baseline is the state computed from the diff fetched in that call,
\* whether the call returned true or false; the old baseline leaves no trace.
C1_BaselineIsFetchedState ==
    pc \in {"swipe", "sleep"} =>
        _last_state = get_current_state(detector_class, diff_string)

\* C1 witness: a LineCount check returned false on a non-empty diff and the
\* baseline is that diff's line count.
C1_Witness ==
    /\ pc = "sleep"
    /\ detector_class = "LineCount"
    /\ layout = "single_file"
    /\ checks = 2
    /\ true_checks = 1
    /\ ~has_new_work
    /\ Len(diff_string) = 3
    /\ _last_state = 1

\* C2: for the Exact strategy a check returns true exactly when the text
\* fetched in the call differs from the baseline stored before the call,
\* shorter and empty texts included.
C2_ExactTrueIffDifferent ==
    [][(CheckReturned /\ detector_class = "Exact") =>
          (has_new_work' = (diff_string' # _last_state))]_vars

\* C2 witness: an Exact check returned true on an empty diff, so the
\* baseline before it was a non-empty text (a revert).
C2_Witness ==
    /\ pc = "swipe"
    /\ detector_class = "Exact"
    /\ has_new_work
    /\ diff_string = EmptyText
    /\ checks = 1

\* C3 as claimed: the package's LineCount check returns true exactly when
\* the fetched diff's line count is strictly greater than the baseline
\* stored before the call.
C3_PackageLineCountStrictGrowth ==
    [][(CheckReturned /\ detector_class = "LineCount" /\ layout = "package") =>
          (has_new_work' = (Len(splitlines(diff_string')) > _last_state))]_vars

\* C4: when two check_for_new_work calls in succession fetch the same diff,
\* the second returns false, for either strategy.
C4_SecondCheckSameDiffFalse ==
    [][(CheckReturned /\ checks >= 1 /\ diff_string' = diff_string) =>
          ~has_new_work']_vars

\* C4 witness: the first check returned true, the second fetched the same
\* text and returned false.
C4_Witness ==
    /\ pc = "sleep"
    /\ detector_class = "Exact"
    /\ checks = 2
    /\ true_checks = 1
    /\ ~has_new_work
    /\ diff_string # EmptyText

\* The lone detector was constructed and then checked exactly twice, so
\* `fetched` holds the constructor's text and the two checks' texts.
CheckedTwice == pc = "lone" /\ checks = 2 /\ Len(fetched) = 3 /\ Len(results) = 2

\* C5 as claimed: an Exact detector constructed on text A, then checked on a
\* different text B, returns true, and a following check on A again returns
\* false.
C5_BackToAReturnsFalse ==
    (CheckedTwice /\ fetched[1] # fetched[2] /\ fetched[3] = fetched[1]) =>
        (results[1] /\ ~results[2])

\* C5 amended: an Exact detector constructed on text A, then checked on a
\* different text B, returns true; the following check returns false when it
\* fetches B again and true when it fetches any other text, A included.
C5_SecondCheckComparesWithB ==
    (CheckedTwice /\ fetched[1] # fetched[2]) =>
        /\ results[1]
        /\ results[2] = (fetched[3] # fetched[2])
        /\ (fetched[3] = fetched[1] => results[2])
        /\ _last_state = fetched[3]

\* C5 witness: constructed on A, checked on B, checked on A again.
C5_Witness ==
    /\ CheckedTwice
    /\ fetched[1] # fetched[2]
    /\ fetched[3] = fetched[1]
    /\ results = <<TRUE, TRUE>>

\* C6: the constructor fetches the diff exactly once and stores its state as
\* the baseline before any check, and the first check returns false when it
\* fetches the text the constructor fetched, whatever that text is.
C6_ConstructorSetsBaseline ==
    [][/\ (pc = "resolve_detector" /\ pc' = "announce") =>
             /\ fetches' = 1
             /\ checks' = 0
             /\ _last_state' = get_current_state(detector_class', diff_string')
       /\ (CheckReturned /\ checks = 0 /\ diff_string' = diff_string) =>
             ~has_new_work']_vars

\* C6 witness: uncommitted work was present at startup and the first check,
\* fetching the same text, returned false.
C6_Witness ==
    /\ pc = "sleep"
    /\ detector_class = "Exact"
    /\ checks = 1
    /\ fetches = 2
    /\ ~has_new_work
    /\ Len(diff_string) = MaxLen

\* C7: a loop iteration calls check_for_new_work once, calls swipe_up once
\* exactly when that check returned true, and sleeps only after both; over
\* a run there are never more swipe_up calls than checks that returned true.
C7_OneCheckOneSwipePerIteration ==
    /\ swipes <= true_checks
    /\ true_checks <= checks
    /\ iter_checks <= 1
    /\ iter_swipes <= 1
    /\ (iter_swipes = 1 => (iter_checks = 1 /\ has_new_work))
    /\ (pc = "check" => (iter_checks = 0 /\ iter_swipes = 0))
    /\ (pc = "swipe" => (iter_checks = 1 /\ iter_swipes = 0 /\ has_new_work))
    /\ (pc = "sleep" => (iter_checks = 1 /\ (iter_swipes = 1 <=> has_new_work)))

\* C7 witness: the second swipe of a run was made, and a third iteration
\* reached its sleep without one.
C7_Witness ==
    /\ pc = "sleep"
    /\ checks = 3
    /\ swipes = 2
    /\ iter_swipes = 0

\* C8: after check_availability returned false the process is over with
\* exit status 1, no provider was handed to main(), the loop was never
\* entered and swipe_up was never called.
C8_UnavailableProviderAborts ==
    available = "no" =>
        /\ pc = "terminated"
        /\ exit_status = 1
        /\ provider = "none"
        /\ checks = 0
        /\ swipes = 0

\* C8 witness: the availability check failed and the process ended.
C8_Witness ==
    /\ available = "no"
    /\ pc = "terminated"
    /\ exit_cause = "Abort"
    /\ probes = 1

\* C9: with a detector name that is no member of the enumeration no detector
\* exists at any time, the loop is never entered (no check, no fetch, no
\* swipe), and the process ends with a non-zero exit status.
C9_UnknownDetectorNeverRuns ==
    lower(detector_name) \notin ChangeDetectors =>
        /\ detector_class = "none"
        /\ DriverState # "Running"
        /\ fetches = 0
        /\ checks = 0
        /\ swipes = 0
        /\ (pc = "terminated" => exit_status > 0)
        /\ (pc = "resolve_detector" => ENABLED GetChangesDetector)

\* C9 witness: the provider was resolved, then the name "bogus" ended the
\* process.
C9_Witness ==
    /\ detector_name = <<"b", "o", "g", "u", "s">>
    /\ provider = "ADB"
    /\ pc = "terminated"
    /\ exit_status = 1

\* The ways the reward command fails.
SwipeFailures == {"file_not_found", "called_process_error", "exception"}

\* C10: a swipe_up call whose command is missing, exits non-zero or fails
\* with another exception returns to the loop: the driver stays Running, at
\* the sleep, with the baseline untouched.
C10_SwipeFailureAbsorbed ==
    [][(swipes' = swipes + 1 /\ swipe_outcome' \in SwipeFailures) =>
          /\ pc' = "sleep"
          /\ exit_status' = -1
          /\ exit_cause' = "none"
          /\ _last_state' = _last_state]_vars

\* C10 witness: a swipe failed and a later iteration ran its check.
C10_Witness ==
    /\ pc = "sleep"
    /\ swipe_outcome = "called_process_error"
    /\ iter_swipes = 1
    /\ checks = 2
    /\ exit_status = -1

\* ------------------------------------------------------------ claims C11-C20

\* The failures of the git call that the Diff Source degrades on.
DegradedOutcomes == {"not_a_repository", "called_process_error", "exception"}

\* A step in which a diff fetch was made (by the constructor or by a check).
Fetched == fetches' = fetches + 1

C12_MissingGitIsFatal ==
    [][/\ (Fetched /\ git_outcome' = "file_not_found") =>
              /\ pc' = "terminated"
              /\ exit_status' = 1
              /\ exit_cause' = "git_not_found"
              /\ swipes' = swipes
              /\ iter_swipes' = 0
              /\ _last_state' = _last_state
       /\ exit_cause = "git_not_found" =>
              /\ pc' = "terminated"
              /\ exit_status' = 1
              /\ UNCHANGED counters]_vars

\* C12 witness: git disappeared at the second check of a run.
C12_Witness ==
    /\ pc = "terminated"
    /\ git_outcome = "file_not_found"
    /\ checks = 2
    /\ iter_checks = 1
    /\ sleeps = 1
    /\ exit_status = 1

\* A step of the loop in which CTRL+C arrived outside the external calls:
\* while sleeping or between two statements.
InterruptedBetweenCalls ==
    /\ DriverState = "Running"
    /\ exit_cause' = "KeyboardInterrupt"
    /\ fetches' = fetches
    /\ swipes' = swipes

\* C13: a KeyboardInterrupt that arrives while the driver is in its loop,
\* during the sleep or between two ticks, ends the process with exit status
\* 0, and no check and no swipe is made after it.
C13_InterruptExitsZero ==
    [][/\ InterruptedBetweenCalls =>
              /\ pc' = "terminated"
              /\ exit_status' = 0
              /\ UNCHANGED <<counters, detector>>
       /\ (exit_cause = "KeyboardInterrupt" /\ exit_status = 0) =>
              /\ pc' = "terminated"
              /\ exit_status' = 0
              /\ UNCHANGED <<counters, detector>>]_vars

\* C13 witness: the interrupt came during the sleep that followed a
\* successful swipe.
C13_Witness ==
    /\ pc = "terminated"
    /\ exit_cause = "KeyboardInterrupt"
    /\ exit_status = 0
    /\ iter_checks = 1
    /\ iter_swipes = 1
    /\ swipe_outcome = "ok"

\* The driver's state after the step.
DriverStateNext ==
    CASE pc' \in {"resolve_provider", "resolve_detector", "announce"} -> "Initializing"
      [] pc' = "terminated" -> "Terminated"
      [] OTHER -> "Running"

\* C14: the driver's states only advance, Initializing to Running to
\* Terminated or Initializing to Terminated.  The loop is entered only with
\* a provider that passed its availability check and a detector whose
\* baseline is set from one fetch.  A failure to resolve the provider or the
\* detector ends the process at once with a non-zero status.  Terminated is
\* never left; exit status 0 is only that of a user interrupt in the loop,
\* and an initialization failure or a missing git executable gives status 1.
C14_StatesOnlyAdvance ==
    [][/\ DriverState = "Running" => DriverStateNext # "Initializing"
       /\ DriverState = "Terminated" => UNCHANGED vars
       /\ (DriverState = "Initializing" /\ DriverStateNext = "Running") =>
              /\ provider' = "ADB"
              /\ available' = "yes"
              /\ probes' = 1
              /\ detector_class' \in DetectorClasses
              /\ fetches' = 1
              /\ checks' = 0
              /\ _last_state' = get_current_state(detector_class', diff_string')
       /\ (DriverState = "Initializing" /\ exit_cause' \in {"ValueError", "Abort"}) =>
              /\ DriverStateNext = "Terminated"
              /\ exit_status' = 1
              /\ detector_class' = "none"
              /\ fetches' = 0
       /\ DriverStateNext = "Terminated" =>
              /\ exit_status' \in {0, 1, 130}
              /\ exit_status' = 0 =>
                    (DriverState = "Running" /\ exit_cause' = "KeyboardInterrupt")
              /\ exit_cause' \in {"ValueError", "Abort", "git_not_found"} =>
                    exit_status' = 1
       /\ DriverStateNext # "Terminated" =>
              (exit_status' = -1 /\ exit_cause' = "none")]_vars

\* C14 witness: a run that went through the three states and ended on the
\* user's interrupt.
C14_Witness ==
    /\ pc = "terminated"
    /\ exit_status = 0
    /\ available = "yes"
    /\ checks = 2
    /\ swipes = 1
    /\ sleeps = 2

\* C15: for every name outside the enumeration the factories
\* (get_swipe_provider, get_changes_detector, ImplFactoryBase's
\* get_impl_instance) raise click.Abort, which main() turns into "Failed to
\* initialize" and exit status 1; no other exception type leaves a factory
\* for an unknown name.
C15_UnknownNameAborts ==
    /\ (pc = "terminated" /\ exit_cause # "KeyboardInterrupt"
            /\ provider_name \notin SwipeProviders) =>
          (exit_cause = "Abort" /\ exit_status = 1)
    /\ (pc = "terminated" /\ exit_cause # "KeyboardInterrupt"
            /\ available = "yes" /\ lower(detector_name) \notin ChangeDetectors) =>
          /\ exit_cause = "Abort"
          /\ exit_status = 1
          /\ get_impl_instance(detector_name, ChangeDetectors, ChangeDetectors).exc
                = "Abort"

\* C16: every iteration of the loop makes exactly one diff fetch and at most
\* one swipe_up call, one after the other: the swipe starts only when the
\* fetch and the check of its iteration are over, the sleep only when both
\* are over, and the next fetch starts only when the sleep of the iteration
\* before it has ended, so that two iterations never overlap.
C16_IterationsAreSequential ==
    [][/\ DriverStateNext = "Running" =>
              /\ fetches' = checks' + 1
              /\ iter_checks' <= 1
              /\ iter_swipes' <= iter_checks'
              /\ sleeps' = checks' - iter_checks'
       /\ (Fetched /\ DriverState = "Running") =>
              /\ pc = "check"
              /\ iter_checks = 0
              /\ iter_swipes = 0
              /\ swipe_outcome = "none"
              /\ sleeps = checks
              /\ checks' = checks + 1
       /\ swipes' = swipes + 1 =>
              /\ pc = "swipe"
              /\ iter_checks = 1
              /\ iter_swipes = 0
              /\ git_outcome \in GitOutcomes
              /\ fetches' = fetches
       /\ sleeps' = sleeps + 1 =>
              /\ pc = "sleep"
              /\ iter_checks = 1
              /\ fetches' = fetches
              /\ swipes' = swipes]_vars

\* C16 witness: the third iteration is about to start after one iteration
\* with a swipe and one without.
C16_Witness ==
    /\ pc = "check"
    /\ checks = 2
    /\ fetches = 3
    /\ sleeps = 2
    /\ swipes = 1
    /\ iter_checks = 0

\* A step in which the detector's constructor ran to its end.
Constructed == pc = "resolve_detector" /\ pc' = "announce"

\* C17: the baseline is written by the detector's constructor and by
\* check_for_new_work only: a swipe_up call (successful or failed), the
\* sleep, the reading of initial_status_message for the banner and a change
\* of the working tree between two polls leave it as it is, and so does
\* every other step.
C17_BaselineWriters ==
    [][/\ (swipes' = swipes + 1 /\ swipe_outcome' \in AdbOutcomes) =>
              _last_state' = _last_state
       /\ sleeps' = sleeps + 1 => _last_state' = _last_state
       /\ pc = "announce" => _last_state' = _last_state
       /\ tree' # tree => _last_state' = _last_state
       /\ (~Constructed /\ ~CheckReturned) => _last_state' = _last_state]_vars

\* C17 witness: after a check on one diff, a failed swipe, a sleep and an
\* edit of the working tree, the baseline is still that of the checked
\* diff.
C17_Witness ==
    /\ pc = "check"
    /\ detector_class = "Exact"
    /\ checks = 1
    /\ sleeps = 1
    /\ last_swipe_failed
    /\ tree # diff_string
    /\ _last_state = diff_string

\* A step of the loop in which CTRL+C arrived inside the git call of a fetch.
InterruptedInFetch == pc = "check" /\ Fetched /\ git_outcome' = "keyboard_interrupt"

\* A step of the loop in which CTRL+C arrived inside the adb call of a swipe.
InterruptedInSwipe == swipes' = swipes + 1 /\ swipe_outcome' = "keyboard_interrupt"

\* C18 as stated: an interrupt that arrives inside an external call lets the
\* tick finish, that is, the check still stores the state of the tree's
\* diff as the baseline and, if it found new work, swipe_up is still called.
C18_InterruptedTickFinishes ==
    [][InterruptedInFetch =>
          LET current == get_current_state(detector_class, tree)
          IN  /\ _last_state' = current
              /\ HasNewWork(layout, detector_class, current, _last_state) =>
                    swipes' = swipes + 1]_vars

\* C18 amended: an interrupt that arrives inside an external call ends the
\* tick at once with exit status 0.  Inside the diff fetch, the check does
\* not return: the baseline and the detector's other fields stay as they
\* were and no swipe_up is called.  Inside the swipe command, whose check
\* had already updated the baseline, swipe_up does not return and no sleep
\* follows.
C18_InterruptEndsTickAtOnce ==
    [][/\ InterruptedInFetch =>
              /\ pc' = "terminated"
              /\ exit_status' = 0
              /\ exit_cause' = "KeyboardInterrupt"
              /\ UNCHANGED detector
              /\ swipes' = swipes
              /\ sleeps' = sleeps
       /\ InterruptedInSwipe =>
              /\ pc' = "terminated"
              /\ exit_status' = 0
              /\ exit_cause' = "KeyboardInterrupt"
              /\ UNCHANGED detector
              /\ _last_state = get_current_state(detector_class, diff_string)
              /\ sleeps' = sleeps
              /\ fetches' = fetches]_vars

\* C18 witness: the interrupt came inside the second fetch of a run, while
\* the tree's diff was not the baseline, and the baseline was left behind.
C18_Witness ==
    /\ pc = "terminated"
    /\ detector_class = "Exact"
    /\ git_outcome = "keyboard_interrupt"
    /\ exit_status = 0
    /\ checks = 2
    /\ tree # _last_state

\* The class get_changes_detector's detector_map gives for a member.
MappedClass(member) == IF member = EXACT THEN "Exact" ELSE "LineCount"

\* C19: detector names are resolved whatever their case, for every member
\* of ChangeDetectors: with any upper/lower-case spelling of "exact" the
\* factory returns the Exact detector, with any spelling of "linecount" the
\* LineCount detector, and the lookup raises nothing, so that the process
\* never ends on the name and, once past the factory, holds a detector of
\* that class.
C19_DetectorNamesAnyCase ==
    \A member \in ChangeDetectors :
        detector_name \in SpellingsOf(member) =>
            /\ get_changes_detector(detector_name) =
                  [kind |-> "return", exc |-> "none", cls |-> MappedClass(member)]
            /\ exit_cause \notin {"ValueError", "Abort"} \/ available = "no"
            /\ pc \in {"announce", "check"} => detector_class = MappedClass(member)
            /\ (pc = "terminated" /\ available = "yes") =>
                  (exit_cause = "git_not_found" /\ fetches = 1)

\* C19 witness: "LiNeCoUnT" gave a LineCount detector.
C19_Witness ==
    /\ detector_name = <<"L", "i", "N", "e", "C", "o", "U", "n", "T">>
    /\ pc = "announce"
    /\ detector_class = "LineCount"
    /\ fetches = 1

\* C20: a failed reward is never retried.  The check has stored the diff it
\* fetched as the baseline before swipe_up is called, so when swipe_up
\* fails the loop goes on to its sleep with that baseline, and every later
\* check that fetches the same diff again returns false and is followed by
\* the sleep, not by a swipe_up call.
C20_FailedRewardNotRetried ==
    [][/\ (swipes' = swipes + 1 /\ swipe_outcome' \in SwipeFailures) =>
              /\ has_new_work
              /\ _last_state = get_current_state(detector_class, diff_string)
              /\ UNCHANGED detector
              /\ last_swipe_failed'
              /\ pc' = "sleep"
       /\ (last_swipe_failed /\ CheckReturned /\ diff_string' = diff_string) =>
              /\ ~has_new_work'
              /\ pc' = "sleep"
              /\ swipes' = swipes
              /\ iter_swipes' = 0]_vars

\* C20 witness: the one swipe of the run failed, and the two checks after it
\* fetched the same diff and went to the sleep without a swipe.
C20_Witness ==
    /\ pc = "sleep"
    /\ last_swipe_failed
    /\ checks = 3
    /\ true_checks = 1
    /\ swipes = 1
    /\ iter_swipes = 0
    /\ git_outcome = "ok"
    /\ tree = diff_string
    /\ tree # EmptyText

\* ------------------------------------------------------------ claims C21-C25

\* main() while nobody touches the working tree and nobody interrupts: the
\* steps of Next without EditTree and the two interrupts.
SteadyTreeNext ==
    \/ GetSwipeProvider
    \/ GetChangesDetector
    \/ Announce
    \/ CheckForNewWork
    \/ SwipeUp
    \/ Sleep

SteadyTreeSpec == Init /\ [][SteadyTreeNext]_vars

\* C21: a check whose fetch fails in a recoverable way does what a check on
\* an empty diff does: the baseline becomes the empty text (Exact) or 0
\* (LineCount).  With Exact and a non-empty baseline the failing check
\* reports new work and the swipe follows; and, the working tree never
\* changing, the first successful fetch of its non-empty diff after that
\* reports new work again and the swipe follows again.
C21_DegradedFetchIsEmptyDiff ==
    [][/\ (CheckReturned /\ git_outcome' \in DegradedOutcomes) =>
              /\ diff_string' = EmptyText
              /\ _last_state' = (IF detector_class = "Exact" THEN EmptyText ELSE 0)
              /\ has_new_work' =
                    HasNewWork(layout, detector_class,
                               get_current_state(detector_class, EmptyText), _last_state)
              /\ (detector_class = "Exact" /\ _last_state # EmptyText) =>
                    (has_new_work' /\ pc' = "swipe")
       /\ (CheckReturned /\ git_outcome' = "ok" /\ detector_class = "Exact"
              /\ tree # EmptyText /\ _last_state = EmptyText) =>
              /\ has_new_work'
              /\ pc' = "swipe"
              /\ _last_state' = tree]_vars

\* C21 witness: with an unchanged non-empty diff, the first check failed
\* and was followed by a swipe, and the second check, whose fetch worked,
\* found new work again.
C21_Witness ==
    /\ pc = "swipe"
    /\ detector_class = "Exact"
    /\ tree # EmptyText
    /\ git_outcome = "ok"
    /\ checks = 2
    /\ true_checks = 2
    /\ swipes = 1
    /\ has_new_work
    /\ _last_state = tree

\* -------------------------------------------------- detectors side by side

\* The three detector classes of the repository.
SideKinds == {"Exact", "PackageLineCount", "SingleFileLineCount"}

\* get_current_state of a kind: the text for Exact, its number of lines for
\* the two LineCount classes.
SideCurrentState(kind, text) ==
    get_current_state(IF kind = "Exact" THEN "Exact" ELSE "LineCount", text)

\* The comparison of a kind's check_for_new_work.
SideHasNewWork(kind, current, last_state) ==
    CASE kind = "Exact" -> ExactHasNewWork(current, last_state)
      [] kind = "PackageLineCount" -> PackageLineCountHasNewWork(current, last_state)
      [] OTHER -> SingleFileLineCountHasNewWork(current, last_state)

\* One detector of each kind, used outside main() on the same repository:
\* every fetch of a round returns the same text to the three of them.
\* `fetched` keeps the texts of the last two rounds.
SideInit ==
    /\ layout = "package"
    /\ provider_name = <<"a", "d", "b">>
    /\ detector_name = EXACT
    /\ pc = "side_new"
    /\ exit_status = -1
    /\ exit_cause = "none"
    /\ provider = "none"
    /\ available = "unchecked"
    /\ detector_class = "none"
    /\ _last_state = "None"
    /\ tree = EmptyText
    /\ diff_string = EmptyText
    /\ has_new_work = FALSE
    /\ probes = 0
    /\ fetches = 0
    /\ checks = 0
    /\ true_checks = 0
    /\ swipes = 0
    /\ iter_checks = 0
    /\ iter_swipes = 0
    /\ swipe_outcome = "none"
    /\ git_outcome = "none"
    /\ last_swipe_failed = FALSE
    /\ sleeps = 0
    /\ fetched = <<>>
    /\ results = <<>>
    /\ side = <<>>
    /\ change = NoChange

\* The three constructors: each stores the state of the fetched text.
SideNew ==
    /\ pc = "side_new"
    /\ pc' = "side_check"
    /\ \E text \in Texts, outcome \in LoneGitOutcomes :
          LET d == get_current_git_diff(text, outcome)
          IN  /\ d.kind = "return"
              /\ diff_string' = d.text
              /\ fetched' = <<d.text>>
              /\ side' = [kind \in SideKinds |->
                            [_last_state |->
                                InitialLastState(IF kind = "Exact" THEN "Exact"
                                                 ELSE "LineCount", d.text),
                             has_new_work |-> FALSE]]
    /\ UNCHANGED <<params, exit_status, exit_cause, provider, available,
                   detector_class, _last_state, has_new_work, tree, counters,
                   iteration, results, change>>

\* One round: check_for_new_work on each of the three, on the same text.
SideCheck ==
    /\ pc = "side_check"
    /\ checks < MaxTicks
    /\ \E text \in Texts, outcome \in LoneGitOutcomes :
          LET d == get_current_git_diff(text, outcome)
          IN  /\ d.kind = "return"
              /\ diff_string' = d.text
              /\ fetched' = LastN(Append(fetched, d.text), 2)
              /\ side' = [kind \in SideKinds |->
                            LET current == SideCurrentState(kind, d.text)
                            IN  [_last_state |->
                                    NewLastState(current, side[kind]._last_state),
                                 has_new_work |->
                                    SideHasNewWork(kind, current, side[kind]._last_state)]]
    /\ checks' = checks + 1
    /\ UNCHANGED <<params, pc, exit_status, exit_cause, provider, available,
                   detector_class, _last_state, has_new_work, tree, probes, fetches,
                   true_checks, swipes, sleeps, iteration, results, change>>

SideNext ==
    \/ SideNew
    \/ SideCheck

SideSpec == SideInit /\ [][SideNext]_vars

\* The number of lines of a text.
LineCountOf(text) == Len(splitlines(text))

\* C22: side by side on the same fetched texts, the package's LineCount
\* detector reports new work in a round only if the Exact detector does in
\* that round, since a change of the line count is a change of the text.
\* The converse fails: two different texts with as many lines make Exact
\* report new work and LineCount not.
C22_LineCountImpliesExact ==
    (pc = "side_check" /\ checks >= 1) =>
        /\ side["PackageLineCount"].has_new_work => side["Exact"].has_new_work
        /\ side["PackageLineCount"]._last_state
              = LineCountOf(side["Exact"]._last_state)
        /\ (fetched[1] # fetched[2]
              /\ LineCountOf(fetched[1]) = LineCountOf(fetched[2])) =>
              /\ side["Exact"].has_new_work
              /\ ~side["PackageLineCount"].has_new_work

\* C22 witness: in the second round the text got another number of lines
\* and both detectors reported new work.
C22_Witness ==
    /\ pc = "side_check"
    /\ checks = 2
    /\ LineCountOf(fetched[1]) # LineCountOf(fetched[2])
    /\ side["PackageLineCount"].has_new_work
    /\ side["Exact"].has_new_work

\* C23: side by side on the same fetched texts, the LineCount detector of
\* code4swipe.py and the one of the package always hold the same baseline
\* and give the same result in every round, also when the number of lines
\* has decreased.
C23_LineCountVariantsAgree ==
    pc = "side_check" =>
        /\ side["SingleFileLineCount"]._last_state
              = side["PackageLineCount"]._last_state
        /\ checks >= 1 =>
              (side["SingleFileLineCount"].has_new_work
                  = side["PackageLineCount"].has_new_work)

\* ------------------------------------------------- one edit, calls returning

\* main() at the top of its loop for the first time, with the provider "adb"
\* and the Exact strategy: the availability probe passed, and the
\* constructor stored what its fetch of the tree's diff returned.
LiveInit ==
    /\ layout \in Layouts
    /\ provider_name = <<"a", "d", "b">>
    /\ detector_name \in {name \in DetectorNames : lower(name) = EXACT}
    /\ pc = "check"
    /\ exit_status = -1
    /\ exit_cause = "none"
    /\ provider = "ADB"
    /\ available = "yes"
    /\ detector_class = "Exact"
    /\ tree \in Texts
    /\ git_outcome \in {"ok"} \cup DegradedOutcomes
    /\ diff_string = get_current_git_diff(tree, git_outcome).text
    /\ _last_state = InitialLastState("Exact", diff_string)
    /\ has_new_work = FALSE
    /\ probes = 1
    /\ fetches = 1
    /\ checks = 0
    /\ true_checks = 0
    /\ swipes = 0
    /\ iter_checks = 0
    /\ iter_swipes = 0
    /\ swipe_outcome = "none"
    /\ last_swipe_failed = FALSE
    /\ sleeps = 0
    /\ fetched = <<>>
    /\ results = <<>>
    /\ side = <<>>
    /\ change = NoChange

\* A check whose git call returns: `git diff` ran and exited with status 0.
CheckForNewWorkReturning == CheckForNewWork /\ git_outcome' = "ok"

\* A swipe_up whose adb call is not interrupted: it ran, or failed in a way
\* swipe_up absorbs.
SwipeUpReturning == SwipeUp /\ swipe_outcome' \in AdbOutcomes

\* The user edits the working tree once while main() is in its loop and
\* polls are still to come: its diff becomes a text that is not the
\* baseline, and is left alone from then on.  `change` keeps the number of
\* checks made so far and the number of swipes that belong to the checks
\* made so far (a swipe that is about to follow the last check included).
ChangeTree ==
    /\ pc \in {"check", "swipe", "sleep"}
    /\ ~change.made
    /\ checks < MaxTicks
    /\ tree' \in Texts \ {tree, _last_state}
    /\ change' = [made |-> TRUE, checks |-> checks,
                  swipes |-> swipes + (IF pc = "swipe" THEN 1 ELSE 0)]
    /\ UNCHANGED <<params, pc, exit_status, exit_cause, provider, available,
                   detector, counters, iteration, fetched, results, side>>

LiveNext ==
    \/ CheckForNewWorkReturning
    \/ SwipeUpReturning
    \/ Sleep
    \/ ChangeTree

\* What every step of the loop moves on.
progress == <<pc, checks, swipes, sleeps>>

\* The loop goes on by itself as long as its calls return.
LiveSpec ==
    /\ LiveInit
    /\ [][LiveNext]_vars
    /\ WF_progress(CheckForNewWorkReturning)
    /\ WF_progress(SwipeUpReturning)
    /\ WF_progress(Sleep)

\* The checks made since the watched edit, and the swipes that belong to
\* them.
PollsSince == checks - change.checks
SwipesSince == swipes - change.swipes

\* What holds at every moment after the watched edit: at most one swipe
\* belongs to the polls made since; the first poll reports new work; and
\* once the first poll's swipe is over, exactly one swipe belongs to them.
RewardedOnceAtFirstPoll ==
    change.made =>
        /\ SwipesSince <= 1
        /\ (PollsSince = 1 /\ pc = "swipe") => (has_new_work /\ SwipesSince = 0)
        /\ (PollsSince >= 1 /\ pc \in {"sleep", "check"}) => SwipesSince = 1
        /\ PollsSince >= 2 => pc # "swipe"

C25_ProviderBeforeDetector ==
    [][/\ Fetched =>
              /\ probes = 1
              /\ available = "yes"
              /\ provider = "ADB"
              /\ pc # "resolve_provider"
       /\ probes' = probes + 1 =>
              /\ pc = "resolve_provider"
              /\ fetches = 0
              /\ fetches' = 0
              /\ detector_class' = "none"
       /\ available' = "no" =>
              /\ fetches' = 0
              /\ detector_class' = "none"
              /\ git_outcome' = "none"
              /\ pc' = "terminated"
       /\ pc' = "resolve_provider" =>
              (fetches' = 0 /\ probes' = 0 /\ detector_class' = "none")]_vars

\* C25 witness: the detector has just been constructed on the tree's diff
\* after the one availability probe.
C25_Witness ==
    /\ pc = "announce"
    /\ probes = 1
    /\ fetches = 1
    /\ available = "yes"
    /\ git_outcome = "ok"
    /\ tree # EmptyText
    /\ diff_string = tree

====
